---- MODULE Spec2Model ----
(***************************************************************************)
(* Model of the method-instrumentation layer of yousign-v3-client:         *)
(* the NoHook method decorator, the GenHooks class decorator and the       *)
(* asynchronous wrapper GenHooks installs (src/src/decorators.ts).         *)
(*                                                                         *)
(* Strings the code computes on (operation names, event names) are         *)
(* sequences of one-character strings, so that capitalizeFirst and the     *)
(* template literals are computed character by character.                  *)
(***************************************************************************)
EXTENDS Integers, Sequences, FiniteSets, TLC

VARIABLES decorators, table, skipLog, stage, insts, tasks, log, registry, regLog,
          trace, yousign, requests

vars == <<decorators, table, skipLog, stage, insts, tasks, log, registry, regLog,
          trace, yousign, requests>>

(* ------------------------------ bounds --------------------------------- *)
MaxInsts == 2
MaxCalls == 1
MaxRegs == 2
MaxInFlight == 2
MaxMutations == 1
MaxRegistrations == 2
MaxMessages == 2
MaxRequests == 2

(* ------------------------------ strings -------------------------------- *)
LowerLetters ==
  <<"a","b","c","d","e","f","g","h","i","j","k","l","m",
    "n","o","p","q","r","s","t","u","v","w","x","y","z">>

UpperLetters ==
  <<"A","B","C","D","E","F","G","H","I","J","K","L","M",
    "N","O","P","Q","R","S","T","U","V","W","X","Y","Z">>

\* String.prototype.toUpperCase on one character
toUpperCase(c) ==
  IF \E i \in 1..Len(LowerLetters) : LowerLetters[i] = c
  THEN UpperLetters[CHOOSE i \in 1..Len(LowerLetters) : LowerLetters[i] = c]
  ELSE c

\* input.charAt(0): "" on the empty string
charAt0(input) == IF Len(input) = 0 THEN <<>> ELSE <<input[1]>>

\* input.slice(1)
slice1(input) == IF Len(input) = 0 THEN <<>> ELSE Tail(input)

capitalizeFirst(input) ==
  [i \in 1..Len(charAt0(input)) |-> toUpperCase(charAt0(input)[i])] \o slice1(input)

\* the operation names of the modelled classes
foo == <<"f","o","o">>
getDocumentData == <<"g","e","t","D","o","c","u","m","e","n","t","D","a","t","a">>
toStringKey == <<"t","o","S","t","r","i","n","g">>
constructorKey == <<"c","o","n","s","t","r","u","c","t","o","r">>
version == <<"v","e","r","s","i","o","n">>

onBefore == <<"o","n","B","e","f","o","r","e">>
onBegin == <<"o","n","B","e","g","i","n">>
onAfter == <<"o","n","A","f","t","e","r">>

\* `onBefore${hookBaseName}`
beforeHookName(key) == onBefore \o capitalizeFirst(key)

\* `onAfter${hookBaseName}`
afterHookName(key) == onAfter \o capitalizeFirst(key)

(* ------------------------- values and classes -------------------------- *)
\* plain values passed to and returned by operations
Values == {"v1", "v2"}

\* failures an underlying implementation can reject with
Errors == {"e1"}

\* the message of the Error the wrapper throws when this.hooks is missing
HooksNotInitialized == "You need to initialize hooks with Event<HookBaseCass> before using it"

\* the argument lists callers pass
ArgLists == {<<>>, <<"v1">>, <<"v1", "v2">>, <<"v2", "v1">>}

Null == "null"

\* classes of the model: B extends A, A extends Object
Classes == {"A", "B"}

\* prototype objects: the classes' prototypes, Object.prototype and
\* Function.prototype
Protos == {"A", "B", "Object", "Function"}

\* Object.getPrototypeOf
getPrototypeOf(p) ==
  CASE p = "B" -> "A"
    [] p = "A" -> "Object"
    [] p = "Function" -> "Object"
    [] OTHER -> Null

Keys == {foo, getDocumentData, toStringKey, constructorKey, version}

\* a property value: a function (the implementation `name` declared by
\* `cls`, inside the wrappers for keys `wraps`, innermost first), a data
\* value, or no property
NoProp == [kind |-> "none", cls |-> "-", name |-> <<>>, wraps |-> <<>>]

Impl(c, k) == [kind |-> "fn", cls |-> c, name |-> k, wraps |-> <<>>]

Data(c, k) == [kind |-> "data", cls |-> c, name |-> k, wraps |-> <<>>]

\* the members each class body declares
Declared(c) ==
  CASE c = "A" -> {foo, getDocumentData, constructorKey}
    [] c = "B" -> {foo, constructorKey}
    [] c = "Object" -> {toStringKey, constructorKey}
    [] OTHER -> {}

\* the operations a class body declares, in the order of the class body
\* (what a method decorator can mark)
Methods(c) ==
  CASE c = "A" -> <<foo, getDocumentData>>
    [] c = "B" -> <<foo>>
    [] OTHER -> <<>>

\* the prototypes' own properties once the class bodies are evaluated
InitTable ==
  [p \in Protos |-> [k \in Keys |->
     IF k \in Declared(p) THEN Impl(p, k)
     ELSE IF p = "A" /\ k = version THEN Data(p, k)
     ELSE NoProp]]

\* an own __skipLog__ property: absent, or an array of entries
NoList == [present |-> FALSE, items |-> <<>>]

List(items) == [present |-> TRUE, items |-> items]

\* what a decorator call pushes: the property name (a string) or the
\* decorator context object of the method
NameEntry(k) == [isString |-> TRUE, name |-> k]

ContextEntry(k) == [isString |-> FALSE, name |-> k]

\* Array.prototype.includes(key) for a string key
includes(items, key) ==
  \E i \in 1..Len(items) : items[i].isString /\ items[i].name = key

\* property lookup of __skipLog__ through the prototype chain: the
\* prototype holding it, or Null
RECURSIVE skipLogHolder(_, _)
skipLogHolder(sl, p) ==
  IF p = Null THEN Null
  ELSE IF sl[p].present THEN p
  ELSE skipLogHolder(sl, getPrototypeOf(p))

\* proto.__skipLog__?.includes(key)
skipped(sl, p, key) ==
  LET h == skipLogHolder(sl, p)
  IN  h # Null /\ includes(sl[h].items, key)

\* property lookup of a member through the prototype chain
RECURSIVE lookup(_, _, _)
lookup(tbl, p, key) ==
  IF p = Null THEN NoProp
  ELSE IF tbl[p][key].kind # "none" THEN tbl[p][key]
  ELSE lookup(tbl, getPrototypeOf(p), key)

(* ----------------------------- decorators ------------------------------ *)
\* what the runtime passes to a method decorator is fixed by the build's
\* decorator convention: "standard" passes (method function, context
\* object), "legacy" passes (class prototype, property key)
DecoratorConventions == {"standard", "legacy"}

\* target.constructor.prototype in NoHook: when target is the method
\* function, the prototype of the function constructors ("Function", which
\* is on no class prototype's chain); when target is the class prototype,
\* that prototype
NoHookHolder(conv, c) == IF conv = "standard" THEN "Function" ELSE c

\* the second argument NoHook pushes
NoHookEntry(conv, m) == IF conv = "standard" THEN ContextEntry(m) ELSE NameEntry(m)

\* NoHook(target, context) applied to method m in the body of class c
NoHookEffect(sl, conv, c, m) ==
  LET holder == NoHookHolder(conv, c)
      created == IF skipLogHolder(sl, holder) = Null
                 THEN [sl EXCEPT ![holder] = List(<<>>)]
                 ELSE sl
      found == skipLogHolder(created, holder)
  IN  [created EXCEPT ![found] = List(Append(@.items, NoHookEntry(conv, m)))]

\* the async function GenHooks builds around originalFn for `key`
Wrapper(key, originalFn) == [originalFn EXCEPT !.wraps = Append(@, key)]

\* descriptor && descriptor.value instanceof Function &&
\* !proto.__skipLog__?.includes(key)
ShouldWrap(tbl, sl, proto, key) ==
  /\ tbl[proto][key].kind = "fn"
  /\ ~skipped(sl, proto, key)

\* one round of the while loop of GenHooks: every own property of proto
\* that passes the test is redefined on the target's prototype
\* (a defineProperty on the prototype being visited)
definePropertyOnVisited(target, proto) == proto

\* Object.defineProperty(originalMethod.prototype, key, descriptor): the
\* prototype that receives the wrapper, whichever prototype is visited
definePropertyOn(target, proto) == target

GenHooksRound(tbl, sl, target, proto) ==
  [tbl EXCEPT ![definePropertyOn(target, proto)] = [key \in Keys |->
     IF ShouldWrap(tbl, sl, proto, key)
     THEN Wrapper(key, tbl[proto][key])
     ELSE tbl[definePropertyOn(target, proto)][key]]]

\* the while loop of GenHooks, from proto up to the end of the chain
RECURSIVE GenHooksFrom(_, _, _, _)
GenHooksFrom(tbl, sl, target, proto) ==
  IF proto = Null THEN tbl
  ELSE GenHooksFrom(GenHooksRound(tbl, sl, target, proto), sl, target,
                    getPrototypeOf(proto))

GenHooksEffect(tbl, sl, target) == GenHooksFrom(tbl, sl, target, target)

(* --------------------------- Yousign (iframe) -------------------------- *)
\* enum EventTypes
EventTypes == {"started", "success", "error", "ping", "declined"}

\* the public methods that register a callback
Registrars == {"onStarted", "onSuccess", "onError", "onPing", "onDeclined"}

\* the EventTypes member each of them hands to setEventCallback
EventTypeOf(method) ==
  CASE method = "onStarted" -> "started"
    [] method = "onSuccess" -> "success"
    [] method = "onError" -> "error"
    [] method = "onPing" -> "ping"
    [] method = "onDeclined" -> "declined"

\* the values callers pass as callback: two functions and a value that is
\* not a function
Callbacks == {"cb1", "cb2"}

NotAFunction == "notAFunction"

Undefined == "undefined"

InvalidCallbackFunction == "InvalidCallbackFunction"

\* typeof callback === "function"
isFunction(callback) == callback \in Callbacks

\* (a setEventCallback without the typeof test)
setEventCallbackThrowsNever(callback) == FALSE

\* if (typeof callback !== "function") throw new InvalidCallbackFunction(...)
setEventCallbackThrows(callback) == ~isFunction(callback)

\* this.eventCallbacks[eventType] = callback
setEventCallback(eventCallbacks, eventType, callback) ==
  [eventCallbacks EXCEPT ![eventType] = callback]

\* origins of window messages, as character sequences
YousignOrigin ==
  <<"h","t","t","p","s",":","/","/","y","o","u","s","i","g","n",".","a","p","p">>

LookalikeOrigin ==
  <<"h","t","t","p","s",":","/","/","y","o","u","s","i","g","n","x","a","p","p">>

OtherOrigin ==
  <<"h","t","t","p","s",":","/","/","e","v","i","l",".","a","p","p">>

Origins == {YousignOrigin, LookalikeOrigin, OtherOrigin}

\* this.childOrigin = /^https:\/\/yousign.app$/ : the characters between ^
\* and $; "/" is written escaped, "." is not, so it stands for any character
childOrigin ==
  <<"h","t","t","p","s",":","/","/","y","o","u","s","i","g","n",".","a","p","p">>

\* origin.match(regexp) for an anchored pattern of single characters
match(origin, regexp) ==
  /\ Len(origin) = Len(regexp)
  /\ \A i \in 1..Len(regexp) : regexp[i] = "." \/ regexp[i] = origin[i]

\* the data of a window message: a value that is not an object, an object
\* without type, yousign events, and __ubble messages with and without a
\* redirect url
NoUrl == ""

MessageData ==
  {[isObject |-> FALSE, type |-> "", event |-> "", redirectUrl |-> NoUrl],
   [isObject |-> TRUE, type |-> "", event |-> "", redirectUrl |-> NoUrl],
   [isObject |-> TRUE, type |-> "yousign", event |-> "started", redirectUrl |-> NoUrl],
   [isObject |-> TRUE, type |-> "yousign", event |-> "success", redirectUrl |-> NoUrl],
   [isObject |-> TRUE, type |-> "__ubble", event |-> "", redirectUrl |-> "https://r.example/?a=1"],
   [isObject |-> TRUE, type |-> "__ubble", event |-> "", redirectUrl |-> NoUrl]}

\* the signature link the instance is built with and its k parameter
SignatureLink == <<"https://yousign.app/signatures/1?k=k1">>

UrlParamK == "k1"

\* `${data.payload.redirectUrl}&k=${this.urlParams.get("k")}`
RedirectSrc(redirectUrl) == <<redirectUrl, "&k=", UrlParamK>>

\* this.eventCallbacks[data.event]
callbackFor(eventCallbacks, event) ==
  IF event \in DOMAIN eventCallbacks THEN eventCallbacks[event] ELSE Undefined

\* receiveMessage(event): the callback it invokes ("none" if none) and the
\* iframe source it leaves
receiveMessage(y, origin, data) ==
  IF ~data.isObject \/ data.type = ""
  THEN [invoked |-> "none", src |-> y.src]
  ELSE IF match(origin, childOrigin) /\ data.type = "yousign"
  THEN [invoked |-> IF isFunction(callbackFor(y.eventCallbacks, data.event))
                    THEN callbackFor(y.eventCallbacks, data.event)
                    ELSE "none",
        src |-> y.src]
  ELSE IF data.type = "__ubble" /\ data.redirectUrl # NoUrl
  THEN [invoked |-> "none", src |-> RedirectSrc(data.redirectUrl)]
  ELSE [invoked |-> "none", src |-> y.src]

\* the listener the constructor adds to the window
messageHandler == "messageHandler"

\* (a removal that names the method instead of the bound function)
removedListenerUnbound == "receiveMessage"

\* the listener removeMessageListener removes
removedListener == messageHandler

NoCall == [method |-> "", callback |-> "", thrown |-> ""]

NoMessage ==
  [origin |-> <<>>, data |-> "", afterRemoval |-> FALSE, registered |-> "",
   invoked |-> "none", srcBefore |-> <<>>, srcAfter |-> <<>>]

\* a Yousign instance after its constructor: no callbacks, the iframe on the
\* signature link, the message listener added; calls and messages count the
\* registrations and window messages so far, lastCall and lastMessage
\* describe the latest of each, removed tells that removeMessageListener
\* was called
NewYousign ==
  [eventCallbacks |-> [e \in EventTypes |-> Undefined],
   src |-> SignatureLink,
   listeners |-> {messageHandler},
   removed |-> FALSE,
   calls |-> 0, lastCall |-> NoCall,
   messages |-> 0, lastMessage |-> NoMessage]

(* ------------------------------- state --------------------------------- *)
\* stage[c]: the decorators applied so far while class c is being defined
\* (next: the index in Methods(c) of the next method a decorator can mark)
InitStage ==
  [c \in Classes |-> [done |-> FALSE, hooked |-> FALSE, marked |-> {}, next |-> 1]]

Init ==
  /\ decorators \in DecoratorConventions
  /\ table = InitTable
  /\ skipLog = [p \in Protos |-> NoList]
  /\ stage = InitStage
  /\ insts = <<>>
  /\ tasks = <<>>
  /\ log = <<>>
  /\ registry = <<>>
  /\ regLog = <<>>
  /\ trace = <<>>
  /\ yousign = NewYousign
  /\ requests = <<>>

\* a class is defined after its superclass
CanDecorate(c) ==
  /\ ~stage[c].done
  /\ getPrototypeOf(c) \in Classes => stage[getPrototypeOf(c)].done

\* @NoHook on the n-th method of class c; method decorators run in the
\* order of the class body
NoHook(c, n) ==
  /\ CanDecorate(c)
  /\ n \in stage[c].next..Len(Methods(c))
  /\ skipLog' = NoHookEffect(skipLog, decorators, c, Methods(c)[n])
  /\ stage' = [stage EXCEPT ![c].marked = @ \cup {Methods(c)[n]}, ![c].next = n + 1]
  /\ UNCHANGED <<decorators, table, insts, tasks, log, registry, regLog, trace,
               yousign, requests>>

\* @GenHooks on class c, which ends the definition of c
GenHooks(c) ==
  /\ CanDecorate(c)
  /\ table' = GenHooksEffect(table, skipLog, c)
  /\ stage' = [stage EXCEPT ![c].done = TRUE, ![c].hooked = TRUE]
  /\ UNCHANGED <<decorators, skipLog, insts, tasks, log, registry, regLog, trace,
               yousign, requests>>

\* the definition of class c ends without a class decorator
EndClass(c) ==
  /\ CanDecorate(c)
  /\ stage' = [stage EXCEPT ![c].done = TRUE]
  /\ UNCHANGED <<decorators, table, skipLog, insts, tasks, log, registry, regLog, trace,
               yousign, requests>>

(* ---------------------------- hook registry ---------------------------- *)
onError == <<"o","n","E","r","r","o","r">>

\* the handlers callers register: one that returns, one whose asynchronous
\* work outlasts the call that invokes it, one that throws
Handlers == {"hReturns", "hAsync", "hThrows"}

\* a value that is not a function
NotCallable == "notCallable"

\* the failure a throwing handler throws
HandlerError == "handlerError"

\* the failure of registering a value that is not a function
InvalidHandler == "InvalidHandler"

\* the event names callers register handlers for
RegisterNames == {beforeHookName(foo), afterHookName(foo), onError}

NoHandler == [id |-> "none", on |-> 0]

\* a handler as registered on instance i
Handler(h, i) == [id |-> h, on |-> i]

\* a new registry: no handler under any name
createHooks == [name \in RegisterNames |-> NoHandler]

isCallable(h) == h \in Handlers

\* (a registry that keeps the first handler of a name)
registerKeepsFirst(hooks, name, handler) ==
  IF hooks[name].id = "none" THEN [hooks EXCEPT ![name] = handler] ELSE hooks

\* register(eventName, handler): stores handler under eventName, overwriting
\* the handler stored before
register(hooks, name, handler) == [hooks EXCEPT ![name] = handler]

\* (a registry that stores whatever value it is given)
registerErrorUnchecked(h) == FALSE

\* register fails for a value that is not callable
registerError(h) == ~isCallable(h)

\* the handler fire(eventName, ...) invokes, NoHandler if none is registered
handlerFor(hooks, name) ==
  IF name \in DOMAIN hooks THEN hooks[name] ELSE NoHandler

\* (a registry whose fire raises when no handler is registered)
fireOutcomeStrict(hooks, name) ==
  CASE handlerFor(hooks, name).id = "none" -> "threw"
    [] handlerFor(hooks, name).id = "hThrows" -> "threw"
    [] handlerFor(hooks, name).id = "hAsync" -> "pending"
    [] OTHER -> "returned"

\* how fire(eventName, ...) ends for its caller: no handler ("none"), the
\* handler returned, the handler's asynchronous work is still pending (it is
\* not awaited), or the handler threw (the failure is not caught)
fireOutcome(hooks, name) ==
  CASE handlerFor(hooks, name).id = "none" -> "none"
    [] handlerFor(hooks, name).id = "hThrows" -> "threw"
    [] handlerFor(hooks, name).id = "hAsync" -> "pending"
    [] OTHER -> "returned"

(* ------------------------------ run time ------------------------------- *)
\* names a caller invokes as operations
Operations == {foo, getDocumentData, toStringKey}

\* log[t] lists the observable steps of call t in the order they happen;
\* its entries:
Fire(t, this, site, key, name, payload) ==
  [type |-> "fire", task |-> t, site |-> site, name |-> name,
   payload |-> payload, cls |-> "-", op |-> key, this |-> this, val |-> "-"]

\* (handler h, registered on instance h.on, is invoked with payload)
HandlerRun(t, site, name, payload, h) ==
  [type |-> "handler", task |-> t, site |-> site, name |-> name,
   payload |-> payload, cls |-> "-", op |-> <<>>, this |-> h.on, val |-> h.id]

HandlerDone(t) ==
  [type |-> "handlerDone", task |-> t, site |-> "-", name |-> <<>>,
   payload |-> <<>>, cls |-> "-", op |-> <<>>, this |-> 0, val |-> "-"]

ImplStart(t, f, this, args) ==
  [type |-> "implStart", task |-> t, site |-> "-", name |-> <<>>,
   payload |-> args, cls |-> f.cls, op |-> f.name, this |-> this, val |-> "-"]

ImplSettled(t, f, ok, v, cause) ==
  [type |-> IF ok THEN "implResolved" ELSE "implRejected", task |-> t,
   site |-> cause, name |-> <<>>, payload |-> <<>>, cls |-> f.cls,
   op |-> f.name, this |-> 0, val |-> v]

\* (a wrapper that uses one registry for every instance)
hooksOfShared(regs, this) == regs[1]

\* this.hooks
hooksOf(regs, this) == regs[this]

\* this.hooks.callHook(name, ...payload): the event is fired on the
\* registry of `this`, which invokes the handler registered for it
callHook(regs, this, t, site, key, name, payload) ==
  <<Fire(t, this, site, key, name, payload)>>
  \o (IF handlerFor(hooksOf(regs, this), name).id = "none" THEN <<>>
      ELSE <<HandlerRun(t, site, name, payload, handlerFor(hooksOf(regs, this), name))>>)

\* (a wrapper that fires the before event without the arguments)
FireBeforeNoArgs(regs, this, t, key, args) ==
  callHook(regs, this, t, "before", key, beforeHookName(key), <<>>)

\* this.hooks.callHook(`onBefore${hookBaseName}`, ...args)
FireBefore(regs, this, t, key, args) ==
  callHook(regs, this, t, "before", key, beforeHookName(key), args)

\* this.hooks.callHook(`onAfter${hookBaseName}`, ...args)
FireAfter(regs, this, t, key, args, result) ==
  callHook(regs, this, t, "after", key, afterHookName(key), args)

\* (a wrapper that goes on to the implementation only once the hook's
\* handler has finished)
AfterBeforeFireAwaited(outcome, rest) ==
  IF outcome \in {"threw", "pending"} THEN <<>> ELSE rest

\* (a wrapper that catches what the before hook throws)
AfterBeforeFireCaught(outcome, rest) == rest

\* lines 41-43: the call of callHook is not awaited and not guarded, so the
\* wrapper goes on to originalFn.apply unless callHook threw
AfterBeforeFire(outcome, rest) == IF outcome = "threw" THEN <<>> ELSE rest

\* (a wrapper that catches what the after hook throws)
AfterFireResultCaught(outcome, result) == [ok |-> TRUE, val |-> result]

\* lines 45-47: the wrapper returns result unless callHook threw
AfterFireResult(outcome, result) ==
  IF outcome = "threw" THEN [ok |-> FALSE, val |-> HandlerError]
  ELSE [ok |-> TRUE, val |-> result]

\* (a wrapper that fires the after event also when the await throws)
AfterAwaitAlways(regs, this, t, key, args, ok, result) ==
  FireAfter(regs, this, t, key, args, result)

\* what the wrapper does once `await originalFn.apply(this, args)` settles:
\* on a value the after event is fired, on a rejection the await throws and
\* the rest of the wrapper is skipped
AfterAwait(regs, this, t, key, args, ok, result) ==
  IF ok THEN FireAfter(regs, this, t, key, args, result) ELSE <<>>

\* originalFn.apply(this, args): the receiver and the arguments handed on
ApplyThis(this) == this

ApplyArgs(args) == args

\* (a wrapper that ends without returning the result)
WrapperReturnNothing(args, result) == "undefined"

\* return result
WrapperReturn(args, result) == result

\* the synchronous part of calling f: each wrapper, outermost first, fires
\* its before event and applies the function it wraps; the implementation
\* then starts
RECURSIVE Enter(_, _, _, _, _, _)
Enter(regs, t, f, layer, this, args) ==
  IF layer = 0 THEN <<ImplStart(t, f, this, args)>>
  ELSE FireBefore(regs, this, t, f.wraps[layer], args)
       \o AfterBeforeFire(
            fireOutcome(hooksOf(regs, this), beforeHookName(f.wraps[layer])),
            Enter(regs, t, f, layer - 1, ApplyThis(this), ApplyArgs(args)))

\* (a wrapper that does not test this.hooks)
HooksMissingUnchecked(f, inst) == FALSE

\* if (!this.hooks) throw new Error(...) in the outermost wrapper
HooksMissing(f, inst) == Len(f.wraps) > 0 /\ ~inst.hooks

\* new c(...): hooks tells whether the instance is built with a hooks
\* attribute (a new registry) and a fetch that reports its errors to it
New(c, hooks) ==
  /\ \A d \in Classes : stage[d].done
  /\ Len(insts) < MaxInsts
  /\ insts' = Append(insts, [cls |-> c, hooks |-> hooks])
  /\ registry' = Append(registry, createHooks)
  /\ UNCHANGED <<decorators, table, skipLog, stage, tasks, log, regLog, trace,
               yousign, requests>>

\* the number of wrappers of a call that fired their before event
Entered(entries) ==
  Cardinality({i \in 1..Len(entries) : entries[i].type = "fire"})

\* the operations of the client classes are declared async; the members of
\* the root object prototype (toString, constructor) are not
IsAsync(f) == f.cls \in Classes

\* what the call expression itself hands its caller: a function declared
\* async always returns a promise, whatever happens in its body (a throw
\* rejects the promise); a function that is not async returns its value
CallReturns(f) ==
  IF Len(f.wraps) > 0 \/ IsAsync(f) THEN "promise" ELSE "value"

\* trace lists, for every entry written to a log, the call that wrote it,
\* in the order the entries were written
Stamp(t, entries) == [k \in 1..Len(entries) |-> t]

\* (a wrapper that awaits callHook and so suspends after firing)
SuspendsAtHookAlways == TRUE

\* this.hooks.callHook(...) is called without await (lines 41 and 45): the
\* only await of the wrapper is the one of originalFn.apply (line 43)
SuspendsAtHook == FALSE

\* the task of a wrapper that has entered: the implementation has started,
\* or a wrapper threw
Entering(task, entries) ==
  LET n == Len(task.fn.wraps)
      started == entries[Len(entries)].type = "implStart"
      thrownAt == n + 1 - Entered(entries)
  IN  IF started THEN [task EXCEPT !.status = "running"]
      ELSE [task EXCEPT !.ok = FALSE, !.val = HandlerError,
              !.layer = IF thrownAt = n THEN n ELSE thrownAt + 1,
              !.status = IF thrownAt = n THEN "done" ELSE "awaiting"]

\* (a call that consults __skipLog__ and reaches the original of a listed
\* operation)
DispatchReadingSkipLog(tbl, sl, c, key) ==
  IF skipped(sl, c, key) THEN [lookup(tbl, c, key) EXCEPT !.wraps = <<>>]
  ELSE lookup(tbl, c, key)

\* insts[i][key]: the property found through the prototype chain; the
\* wrapper GenHooks installed does not read __skipLog__
Dispatch(tbl, sl, c, key) == lookup(tbl, c, key)

\* insts[i][key](...args) runs up to its first suspension
Invoke(i, key, args) ==
  LET f == Dispatch(table, skipLog, insts[i].cls, key)
      t == Len(tasks) + 1
      n == Len(f.wraps)
      entries == IF SuspendsAtHook /\ n > 0
                 THEN FireBefore(registry, i, t, f.wraps[n], args)
                 ELSE Enter(registry, t, f, n, i, args)
      task == [inst |-> i, key |-> key, args |-> args, fn |-> f,
               layer |-> 0, status |-> "running", ok |-> TRUE, val |-> "-",
               returned |-> CallReturns(f)]
  IN  /\ f.kind = "fn"
      /\ IF HooksMissing(f, insts[i])
         THEN /\ tasks' = Append(tasks,
                    [task EXCEPT !.status = "done", !.ok = FALSE,
                                 !.val = HooksNotInitialized])
              /\ log' = Append(log, <<>>)
              /\ trace' = trace
         ELSE /\ tasks' = Append(tasks,
                    IF SuspendsAtHook /\ n > 0
                    THEN [task EXCEPT !.status = "entered", !.layer = n]
                    ELSE Entering(task, entries))
              /\ log' = Append(log, entries)
              /\ trace' = trace \o Stamp(t, entries)
      /\ UNCHANGED <<decorators, table, skipLog, stage, insts, registry, regLog,
               yousign, requests>>

\* a caller invokes insts[i][key](...args)
Call(i, key, args) ==
  /\ Len(tasks) < MaxCalls
  /\ Invoke(i, key, args)

\* a caller invokes insts[i][key](...args) while earlier calls are in flight
CallInFlight(i, key, args) ==
  /\ Len(tasks) < MaxInFlight
  /\ Invoke(i, key, args)

\* why an implementation fails: the request made through this.fetch fails
\* before or after a response arrives, an argument is rejected by the
\* operation itself, or the download of a document through $fetch fails
Causes == {"request", "response", "argument", "download"}

\* the failures the fetch of the instance reports to its callbacks
TransportCauses == {"request", "response"}

\* (a client whose fetch reports only request errors)
ReportsErrorRequestOnly(inst, cause) == inst.hooks /\ cause = "request"

\* onRequestError / onResponseError of the fetch built with the hooks
ReportsError(inst, cause) == inst.hooks /\ cause \in TransportCauses

\* this.hooks.callHook("onError", context.error)
FireOnError(regs, this, t, error) ==
  callHook(regs, this, t, "error", <<>>, onError, <<error>>)

\* the underlying implementation settles: it resolves with a value or
\* rejects with an error
ImplSettle(t, ok, v, cause) ==
  /\ tasks[t].status = "running"
  /\ v \in (IF ok THEN Values ELSE Errors)
  /\ cause \in (IF ok THEN {"-"} ELSE Causes)
  /\ tasks' = [tasks EXCEPT ![t].ok = ok, ![t].val = v,
                 ![t].layer = 1,
                 ![t].status = IF Len(tasks[t].fn.wraps) = 0 THEN "done" ELSE "awaiting"]
  /\ LET entries == (IF ReportsError(insts[tasks[t].inst], cause)
                      THEN FireOnError(registry, tasks[t].inst, t, v)
                      ELSE <<>>)
                     \o <<ImplSettled(t, tasks[t].fn, ok, v, cause)>>
     IN  /\ log' = [log EXCEPT ![t] = @ \o entries]
         /\ trace' = trace \o Stamp(t, entries)
  /\ UNCHANGED <<decorators, table, skipLog, stage, insts, registry, regLog,
               yousign, requests>>

\* the wrapper at tasks[t].layer continues after its await: on a value it
\* fires the after event and returns, on a rejection the await throws
Resume(t) ==
  LET task == tasks[t]
      key == task.fn.wraps[task.layer]
      last == task.layer = Len(task.fn.wraps)
      end == IF task.ok
             THEN AfterFireResult(
                    fireOutcome(hooksOf(registry, task.inst), afterHookName(key)),
                    WrapperReturn(task.args, task.val))
             ELSE [ok |-> FALSE, val |-> task.val]
      entries == AfterAwait(registry, task.inst, t, key, task.args,
                            task.ok, task.val)
      \* the rest of a wrapper that suspended after firing its before event
      rest == AfterBeforeFire(
                fireOutcome(hooksOf(registry, task.inst), beforeHookName(key)),
                Enter(registry, t, task.fn, task.layer - 1, task.inst, task.args))
  IN  /\ task.status \in {"awaiting", "entered"}
      /\ IF task.status = "entered"
         THEN /\ log' = [log EXCEPT ![t] = @ \o rest]
              /\ trace' = trace \o Stamp(t, rest)
              /\ tasks' = [tasks EXCEPT ![t] =
                             Entering([task EXCEPT !.layer = 0], log'[t])]
         ELSE /\ log' = [log EXCEPT ![t] = @ \o entries]
              /\ trace' = trace \o Stamp(t, entries)
              /\ tasks' = [tasks EXCEPT
                     ![t].ok = end.ok,
                     ![t].val = end.val,
                     ![t].layer = IF last THEN task.layer ELSE task.layer + 1,
                     ![t].status = IF last THEN "done" ELSE "awaiting"]
      /\ UNCHANGED <<decorators, table, skipLog, stage, insts, registry, regLog,
               yousign, requests>>

\* insts[i].hooks.hook(name, h): a caller registers h for name
Register(i, name, h) ==
  /\ insts[i].hooks
  /\ Len(regLog) < MaxRegs
  /\ registry' = IF registerError(h) THEN registry
                 ELSE [registry EXCEPT ![i] = register(@, name, Handler(h, i))]
  /\ regLog' = Append(regLog,
                 [inst |-> i, name |-> name, h |-> h,
                  result |-> IF registerError(h) THEN InvalidHandler ELSE "ok"])
  /\ UNCHANGED <<decorators, table, skipLog, stage, insts, tasks, log, trace,
               yousign, requests>>

\* the asynchronous handlers call t invoked that have not finished
PendingHandlers(t) ==
  Cardinality({i \in 1..Len(log[t]) :
                 log[t][i].type = "handler" /\ log[t][i].val = "hAsync"})
  - Cardinality({i \in 1..Len(log[t]) : log[t][i].type = "handlerDone"})

\* the asynchronous work of a handler invoked by call t finishes
HandlerComplete(t) ==
  /\ PendingHandlers(t) > 0
  /\ log' = [log EXCEPT ![t] = Append(@, HandlerDone(t))]
  /\ trace' = Append(trace, t)
  /\ UNCHANGED <<decorators, table, skipLog, stage, insts, tasks, registry, regLog,
               yousign, requests>>

Next ==
  \/ \E c \in Classes, n \in 1..2 : NoHook(c, n)
  \/ \E c \in Classes : GenHooks(c)
  \/ \E c \in Classes : EndClass(c)
  \/ \E c \in Classes, hooks \in BOOLEAN : New(c, hooks)
  \/ \E i \in 1..Len(insts), key \in Operations, args \in ArgLists : Call(i, key, args)
  \/ \E t \in 1..Len(tasks), ok \in BOOLEAN, v \in Values \cup Errors,
        cause \in Causes \cup {"-"} : ImplSettle(t, ok, v, cause)
  \/ \E t \in 1..Len(tasks) : Resume(t)

Spec == Init /\ [][Next]_vars

(* ------------------- the classes defined, with handlers ---------------- *)
\* the prototypes once A and B are defined, B decorated with GenHooks and A
\* decorated or not, no method marked
DefinedTable(hookedA) ==
  GenHooksEffect(
    IF hookedA THEN GenHooksEffect(InitTable, [p \in Protos |-> NoList], "A")
    ELSE InitTable,
    [p \in Protos |-> NoList], "B")

InitDefined ==
  \E hookedA \in BOOLEAN :
    /\ decorators = "standard"
    /\ table = DefinedTable(hookedA)
    /\ skipLog = [p \in Protos |-> NoList]
    /\ stage = [c \in Classes |->
                 [done |-> TRUE, hooked |-> (c = "B" \/ hookedA),
                  marked |-> {}, next |-> 1]]
    /\ insts = <<>>
    /\ tasks = <<>>
    /\ log = <<>>
    /\ registry = <<>>
    /\ regLog = <<>>
    /\ trace = <<>>
    /\ yousign = NewYousign
    /\ requests = <<>>

\* the calls made on the clients: clients are instances of B built with
\* their hooks
HookOperations == {foo, getDocumentData}

HookArgLists == {<<"v1">>}

NextHooks ==
  \/ New("B", TRUE)
  \/ \E i \in 1..Len(insts), key \in HookOperations, args \in HookArgLists :
        Call(i, key, args)
  \/ \E t \in 1..Len(tasks), ok \in BOOLEAN, v \in Values \cup Errors,
        cause \in Causes \cup {"-"} : ImplSettle(t, ok, v, cause)
  \/ \E t \in 1..Len(tasks) : Resume(t)
  \/ \E i \in 1..Len(insts), name \in RegisterNames, h \in Handlers \cup {NotCallable} :
        Register(i, name, h)
  \/ \E t \in 1..Len(tasks) : HandlerComplete(t)

SpecHooks == InitDefined /\ [][NextHooks]_vars

(* ------------- the exemption list changed after GenHooks --------------- *)
\* the exemption lists once A is defined with getDocumentData marked by
\* NoHook under the legacy convention
FrozenSkipLog ==
  NoHookEffect([p \in Protos |-> NoList], "legacy", "A", getDocumentData)

\* the prototypes once A is decorated with GenHooks, and B decorated or not
FrozenTable(hookedB) ==
  IF hookedB
  THEN GenHooksEffect(GenHooksEffect(InitTable, FrozenSkipLog, "A"),
                      FrozenSkipLog, "B")
  ELSE GenHooksEffect(InitTable, FrozenSkipLog, "A")

InitFrozen ==
  \E hookedB \in BOOLEAN :
    /\ decorators = "legacy"
    /\ table = FrozenTable(hookedB)
    /\ skipLog = FrozenSkipLog
    /\ stage = [c \in Classes |->
                 IF c = "A"
                 THEN [done |-> TRUE, hooked |-> TRUE,
                       marked |-> {getDocumentData}, next |-> 3]
                 ELSE [done |-> TRUE, hooked |-> hookedB,
                       marked |-> {}, next |-> 1]]
    /\ insts = <<>>
    /\ tasks = <<>>
    /\ log = <<>>
    /\ registry = <<>>
    /\ regLog = <<>>
    /\ trace = <<>>
    /\ yousign = NewYousign
    /\ requests = <<>>

\* the mark trace holds for a change of an exemption list
Mutation == 0

\* code outside the decorators changes c.prototype.__skipLog__ after the
\* classes are defined: it pushes key, or removes every entry for key
SetSkipLog(c, key, add) ==
  /\ \A d \in Classes : stage[d].done
  /\ Cardinality({p \in 1..Len(trace) : trace[p] = Mutation}) < MaxMutations
  /\ skipLog' = [skipLog EXCEPT ![c] =
                   IF add THEN List(Append(@.items, NameEntry(key)))
                   ELSE List(SelectSeq(@.items, LAMBDA e : e.name # key))]
  /\ trace' = Append(trace, Mutation)
  /\ UNCHANGED <<decorators, table, stage, insts, tasks, log, registry, regLog,
               yousign, requests>>

NextFrozen ==
  \/ \E c \in Classes, hooks \in BOOLEAN : New(c, hooks)
  \/ \E c \in Classes, key \in HookOperations, add \in BOOLEAN :
        SetSkipLog(c, key, add)
  \/ \E i \in 1..Len(insts), key \in HookOperations, args \in HookArgLists :
        Call(i, key, args)
  \/ \E t \in 1..Len(tasks), ok \in BOOLEAN, v \in Values \cup Errors,
        cause \in Causes \cup {"-"} : ImplSettle(t, ok, v, cause)
  \/ \E t \in 1..Len(tasks) : Resume(t)

SpecFrozen == InitFrozen /\ [][NextFrozen]_vars

(* ------------------------ the Yousign instance ------------------------- *)
clientVars ==
  <<decorators, table, skipLog, stage, insts, tasks, log, registry, regLog, trace>>

\* yousign.onStarted(callback), onSuccess, onError, onPing, onDeclined
On(method, callback) ==
  /\ yousign.calls < MaxRegistrations
  /\ yousign' =
       IF setEventCallbackThrows(callback)
       THEN [yousign EXCEPT
               !.calls = @ + 1,
               !.lastCall = [method |-> method, callback |-> callback,
                             thrown |-> InvalidCallbackFunction]]
       ELSE [yousign EXCEPT
               !.eventCallbacks =
                  setEventCallback(@, EventTypeOf(method), callback),
               !.calls = @ + 1,
               !.lastCall = [method |-> method, callback |-> callback,
                             thrown |-> "none"]]
  /\ UNCHANGED <<clientVars, requests>>

\* the window dispatches a message event to its listeners
WindowMessage(origin, data) ==
  LET heard == messageHandler \in yousign.listeners
      effect == IF heard THEN receiveMessage(yousign, origin, data)
                ELSE [invoked |-> "none", src |-> yousign.src]
  IN  /\ yousign.messages < MaxMessages
      /\ yousign' =
           [yousign EXCEPT
              !.src = effect.src,
              !.messages = @ + 1,
              !.lastMessage =
                 [origin |-> origin, data |-> data,
                  afterRemoval |-> yousign.removed,
                  registered |-> callbackFor(yousign.eventCallbacks, data.event),
                  invoked |-> effect.invoked,
                  srcBefore |-> yousign.src, srcAfter |-> effect.src]]
      /\ UNCHANGED <<clientVars, requests>>

\* yousign.removeMessageListener()
RemoveMessageListener ==
  /\ ~yousign.removed
  /\ yousign' = [yousign EXCEPT !.listeners = @ \ {removedListener},
                                !.removed = TRUE]
  /\ UNCHANGED <<clientVars, requests>>

InitIframe ==
  /\ decorators = "standard"
  /\ table = InitTable
  /\ skipLog = [p \in Protos |-> NoList]
  /\ stage = InitStage
  /\ insts = <<>>
  /\ tasks = <<>>
  /\ log = <<>>
  /\ registry = <<>>
  /\ regLog = <<>>
  /\ trace = <<>>
  /\ yousign = NewYousign
  /\ requests = <<>>

NextIframe ==
  \/ \E method \in Registrars, callback \in Callbacks \cup {NotAFunction} :
       On(method, callback)
  \/ \E origin \in Origins, data \in MessageData : WindowMessage(origin, data)
  \/ RemoveMessageListener

SpecIframe == InitIframe /\ [][NextIframe]_vars

(* ---------------------------- getCertificate -------------------------- *)
\* the values callers pass as second argument, with their typeof
SignerIds ==
  {[type |-> "string", value |-> "s1"], [type |-> "string", value |-> "s2"],
   [type |-> "boolean", value |-> "true"], [type |-> "boolean", value |-> "false"],
   [type |-> "undefined", value |-> ""], [type |-> "number", value |-> "42"]}

SignatureRequestIds == {"r1", "r2"}

\* signerId: string | boolean = true
defaultSignerId(signerId) ==
  IF signerId.type = "undefined" THEN [type |-> "boolean", value |-> "true"]
  ELSE signerId

\* getCertificate(signatureRequestId, signerId): the request it makes
\* through this.fetch, or the error it throws
getCertificate(signatureRequestId, signerId) ==
  LET s == defaultSignerId(signerId)
  IN  CASE s.type = "string" ->
             [thrown |-> "none",
              url |-> <<"/signature_requests/", signatureRequestId, "/signers/",
                        s.value, "/audit_trails/download">>,
              responseType |-> "blob"]
        [] s.type = "boolean" ->
             [thrown |-> "none",
              url |-> <<"/signature_requests/", signatureRequestId,
                        "/audit_trails/download">>,
              responseType |-> "blob"]
        [] OTHER ->
             [thrown |-> "Invalid signerId type", url |-> <<>>,
              responseType |-> ""]

\* a caller invokes client.getCertificate(signatureRequestId, signerId)
GetCertificate(signatureRequestId, signerId) ==
  /\ Len(requests) < MaxRequests
  /\ requests' = Append(requests,
                   [signatureRequestId |-> signatureRequestId,
                    signerId |-> signerId,
                    result |-> getCertificate(signatureRequestId, signerId)])
  /\ UNCHANGED <<clientVars, yousign>>

NextCertificate ==
  \E signatureRequestId \in SignatureRequestIds, signerId \in SignerIds :
    GetCertificate(signatureRequestId, signerId)

SpecCertificate == InitIframe /\ [][NextCertificate]_vars

(* ---------------------- several calls in flight ------------------------ *)
NextInFlight ==
  \/ New("B", TRUE)
  \/ \E i \in 1..Len(insts), key \in HookOperations, args \in HookArgLists :
        CallInFlight(i, key, args)
  \/ \E t \in 1..Len(tasks), ok \in BOOLEAN, v \in Values \cup Errors,
        cause \in Causes \cup {"-"} : ImplSettle(t, ok, v, cause)
  \/ \E t \in 1..Len(tasks) : Resume(t)

SpecInFlight == InitDefined /\ [][NextInFlight]_vars

(* ------------------------------ properties ----------------------------- *)
TaskIds == 1..Len(tasks)

\* positions in the log of task t of the entries with the given type
Positions(t, type) == {i \in 1..Len(log[t]) : log[t][i].type = type}

\* positions in the log of the events task t fired at the given call site
Fires(t, site) == {i \in Positions(t, "fire") : log[t][i].site = site}

ClassOf(t) == insts[tasks[t].inst].cls

IsWrapped(t) == Len(tasks[t].fn.wraps) > 0

Done(t) == tasks[t].status = "done"

\* the call resolved (with a value) for its caller
Resolved(t) == Done(t) /\ tasks[t].ok

\* classes on the inheritance chain of c, c included
RECURSIVE Chain(_)
Chain(p) == IF p = Null THEN {} ELSE {p} \cup Chain(getPrototypeOf(p))

\* no class on the chain of c marks key with NoHook
NonExempt(c, key) == \A d \in Chain(c) \cap Classes : key \notin stage[d].marked

\* the class whose definition of key an instance of c dispatches to before
\* any transformation
MostDerived(c, key) == lookup(InitTable, c, key).cls

\* C1: one call of a non-exempt operation m of a transformed class, on an
\* instance with a hook registry, fires exactly one begin event before the
\* implementation starts and exactly one after event after it resolved,
\* and no other event.
C1_OneBeginOneAfter ==
  \A t \in TaskIds :
    (/\ Resolved(t)
     /\ stage[ClassOf(t)].hooked
     /\ insts[tasks[t].inst].hooks
     /\ NonExempt(ClassOf(t), tasks[t].key))
    => /\ Cardinality(Fires(t, "before")) = 1
       /\ Cardinality(Fires(t, "after")) = 1
       /\ Cardinality(Positions(t, "fire")) = 2
       /\ \A b \in Fires(t, "before"), s \in Positions(t, "implStart") : b < s
       /\ \A a \in Fires(t, "after"), r \in Positions(t, "implResolved") : r < a

\* C2: a wrapped call resolves with the value the implementation it wraps
\* resolved with, and that implementation receives the caller's instance
\* and argument list unchanged.
C2_ReturnValueTransparent ==
  \A t \in TaskIds :
    IsWrapped(t) =>
      /\ \A s \in Positions(t, "implStart") :
           log[t][s].this = tasks[t].inst /\ log[t][s].payload = tasks[t].args
      /\ Resolved(t) =>
           /\ Positions(t, "implResolved") # {}
           /\ \A r \in Positions(t, "implResolved") : tasks[t].val = log[t][r].val

C2_Witness ==
  \E t \in TaskIds :
    /\ IsWrapped(t) /\ Resolved(t)
    /\ Len(tasks[t].args) = 2
    /\ tasks[t].val = "v2"

\* C3: when the implementation resolves with v, the after event is fired
\* with payload v.
C3_AfterPayloadIsResult ==
  \A t \in TaskIds : \A a \in Fires(t, "after") :
    \E r \in Positions(t, "implResolved") : log[t][a].payload = <<log[t][r].val>>

\* the name an operation name is documented to give: prefix, then the
\* name with only its first character upper-cased
DocumentedName(prefix, m) ==
  prefix \o [i \in 1..Len(m) |-> IF i = 1 THEN toUpperCase(m[i]) ELSE m[i]]

\* C4: the event fired before operation m is named onBegin<Capitalize(m)>
\* and the event fired after it onAfter<Capitalize(m)>.
C4_EventNames ==
  \A t \in TaskIds :
    /\ \A b \in Fires(t, "before") :
         log[t][b].name = DocumentedName(onBegin, log[t][b].op)
    /\ \A a \in Fires(t, "after") :
         log[t][a].name = DocumentedName(onAfter, log[t][a].op)

\* C5: the begin event is fired with exactly the caller's argument list,
\* in the same order.
C5_BeginPayloadIsArgs ==
  \A t \in TaskIds : \A b \in Fires(t, "before") :
    log[t][b].payload = tasks[t].args

C5_Witness ==
  \E t \in TaskIds : \E b \in Fires(t, "before") :
    log[t][b].payload = <<"v2", "v1">>

\* C6: a wrapped operation called on an instance without a hook registry
\* fails with the hooks-not-initialized error; the implementation is not
\* executed and no event is fired.
C6_FailFast ==
  \A t \in TaskIds :
    (IsWrapped(t) /\ ~insts[tasks[t].inst].hooks) =>
      /\ Done(t) /\ ~tasks[t].ok /\ tasks[t].val = HooksNotInitialized
      /\ log[t] = <<>>

C6_Witness ==
  \E t \in TaskIds :
    /\ IsWrapped(t) /\ ~insts[tasks[t].inst].hooks
    /\ tasks[t].val = HooksNotInitialized

\* C7: when the implementation rejects with e, the wrapped call rejects
\* with the same e, no after event is fired and the wrapper fires no
\* event other than the begin event.
C7_RejectionPropagates ==
  \A t \in TaskIds : \A r \in Positions(t, "implRejected") :
    IsWrapped(t) =>
      /\ Fires(t, "after") = {}
      /\ \A i \in Positions(t, "fire") : i < r
      /\ Done(t) => (~tasks[t].ok /\ tasks[t].val = log[t][r].val)

C7_Witness ==
  \E t \in TaskIds :
    /\ IsWrapped(t) /\ Done(t)
    /\ Positions(t, "implRejected") # {}
    /\ tasks[t].val = "e1"

\* C8: an operation marked with NoHook in a transformed class is not
\* wrapped: calling it fires no event and needs no hook registry.
C8_ExemptNotWrapped ==
  \A t \in TaskIds :
    (/\ stage[ClassOf(t)].hooked
     /\ tasks[t].key \in stage[ClassOf(t)].marked)
    => /\ Positions(t, "fire") = {}
       /\ tasks[t].val # HooksNotInitialized

\* C9: foo marked in A and overridden without a mark in B: after B is
\* transformed, a call of foo on a B instance fires the begin and the
\* after event of foo around B's foo.
C9_ExemptionNotInherited ==
  \A t \in TaskIds :
    (/\ foo \in stage["A"].marked /\ foo \notin stage["B"].marked
     /\ stage["B"].hooked
     /\ ClassOf(t) = "B" /\ tasks[t].key = foo
     /\ insts[tasks[t].inst].hooks
     /\ Resolved(t))
    => /\ \E b \in Fires(t, "before") : log[t][b].op = foo
       /\ \E a \in Fires(t, "after") : log[t][a].op = foo
       /\ tasks[t].fn.cls = "B"

\* C10: the wrapper installed for a name defined by the transformed class
\* and by an ancestor invokes the transformed class's own definition.
C10_MostDerivedWrapped ==
  \A t \in TaskIds :
    (stage[ClassOf(t)].hooked /\ IsWrapped(t)) =>
      tasks[t].fn.cls = MostDerived(ClassOf(t), tasks[t].key)

\* C11: an operation is never wrapped twice: when GenHooks is applied to a
\* class whose ancestor was already transformed, one call of an inherited
\* operation fires exactly one begin and exactly one after event.
C11_NeverWrappedTwice ==
  \A t \in TaskIds :
    (/\ stage[ClassOf(t)].hooked
     /\ \E d \in (Chain(ClassOf(t)) \cap Classes) \ {ClassOf(t)} : stage[d].hooked
     /\ insts[tasks[t].inst].hooks
     /\ Resolved(t))
    => /\ Len(tasks[t].fn.wraps) <= 1
       /\ Cardinality(Fires(t, "before")) <= 1
       /\ Cardinality(Fires(t, "after")) <= 1

(* ------------------------- hook registry claims ------------------------ *)
\* the handler entries of kind h that call t logged at site
Handled(t, site, h) ==
  {j \in Positions(t, "handler") : log[t][j].site = site /\ log[t][j].val = h}

\* the registrations made on instance i for name
Registrations(i, name) ==
  {k \in 1..Len(regLog) : regLog[k].inst = i /\ regLog[k].name = name}

Latest(S) == CHOOSE k \in S : \A j \in S : j <= k

\* the handler registered last for name on instance i among the accepted
\* registrations, "none" if there is none
LatestAccepted(i, name) ==
  LET S == {k \in Registrations(i, name) : regLog[k].result = "ok"}
  IN  IF S = {} THEN "none" ELSE regLog[Latest(S)].h

\* the handler registered last for name on instance i among the callable
\* values registered, "none" if there is none
LatestCallable(i, name) ==
  LET S == {k \in Registrations(i, name) : regLog[k].h \in Handlers}
  IN  IF S = {} THEN "none" ELSE regLog[Latest(S)].h

\* the entries a step appends to the log of call t
OldLen(t) == IF t <= Len(log) THEN Len(log[t]) ELSE 0

\* the handlers a fire at position i of log'[t] invoked: the handler entries
\* that follow it before the next entry of another type
InvokedBy(t, i) ==
  {j \in (i + 1)..Len(log'[t]) :
     \A k \in (i + 1)..j : log'[t][k].type = "handler"}

\* C12: the registry holds at most one handler per event name: every firing
\* of an event invokes exactly the handler registered last for that name on
\* that registry (h2 after registering h1 and then h2, never h1), and
\* nothing when none was registered.
C12_Overwrite ==
  [][\A t \in 1..Len(log') :
       \A i \in (OldLen(t) + 1)..Len(log'[t]) :
         log'[t][i].type = "fire" =>
           LET h == LatestAccepted(log'[t][i].this, log'[t][i].name)
           IN  /\ Cardinality(InvokedBy(t, i)) = (IF h = "none" THEN 0 ELSE 1)
               /\ \A j \in InvokedBy(t, i) :
                    /\ log'[t][j].val = h
                    /\ log'[t][j].name = log'[t][i].name]_vars

C12_Witness ==
  /\ Len(regLog) = 2
  /\ regLog[1].inst = regLog[2].inst /\ regLog[1].name = regLog[2].name
  /\ regLog[1].result = "ok" /\ regLog[2].result = "ok"
  /\ regLog[1].h # regLog[2].h
  /\ \E t \in TaskIds : \E j \in Positions(t, "handler") :
       /\ log[t][j].name = regLog[2].name
       /\ log[t][j].this = regLog[2].inst
       /\ log[t][j].val = regLog[2].h
       /\ \A k \in Positions(t, "handler") : log[t][k].val # regLog[1].h

\* no handler was ever registered on instance i
NeverRegistered(i) == \A k \in 1..Len(regLog) : regLog[k].inst # i

\* C13: firing an event with no handler registered raises nothing and
\* changes nothing: a wrapped call on an instance on which no handler was
\* registered invokes no handler, leaves the registry as created and ends as
\* the implementation ended.
C13_NoHandlerNoOp ==
  \A t \in TaskIds :
    (IsWrapped(t) /\ NeverRegistered(tasks[t].inst)) =>
      /\ Positions(t, "handler") = {}
      /\ registry[tasks[t].inst] = createHooks
      /\ Positions(t, "implStart") # {}
      /\ tasks[t].val # HandlerError
      /\ \A r \in Positions(t, "implResolved") \cup Positions(t, "implRejected") :
           Done(t) => /\ tasks[t].ok = (log[t][r].type = "implResolved")
                      /\ tasks[t].val = log[t][r].val

C13_Witness ==
  \E t \in TaskIds :
    /\ IsWrapped(t) /\ NeverRegistered(tasks[t].inst)
    /\ Done(t) /\ tasks[t].ok /\ tasks[t].val = "v2"
    /\ Fires(t, "before") # {} /\ Fires(t, "after") # {}

\* C14: a fire does not wait for an asynchronous handler: once the begin
\* event invoked an asynchronous handler the implementation has started, and
\* once the after event of the outermost wrapper invoked one the call has
\* returned the result, whether or not the handlers have finished.
C14_FireAndContinue ==
  \A t \in {u \in TaskIds : IsWrapped(u)} :
    /\ \A j \in Handled(t, "before", "hAsync") :
         \E s \in Positions(t, "implStart") : s > j
    /\ (/\ Cardinality(Fires(t, "after")) = Len(tasks[t].fn.wraps)
        /\ Latest(Fires(t, "after")) + 1 \in Handled(t, "after", "hAsync"))
       => (Done(t) /\ tasks[t].ok /\ tasks[t].val \in Values)

C14_Witness ==
  \E t \in TaskIds :
    /\ Handled(t, "before", "hAsync") # {}
    /\ Handled(t, "after", "hAsync") # {}
    /\ Positions(t, "handlerDone") = {}
    /\ Done(t) /\ tasks[t].ok

\* C15: when the handler of the begin event throws, the wrapped call fails
\* for its caller with the handler's failure and the implementation is not
\* executed.
C15_BeginHandlerThrows ==
  \A t \in TaskIds :
    Handled(t, "before", "hThrows") # {} =>
      /\ Positions(t, "implStart") = {}
      /\ Done(t) /\ ~tasks[t].ok /\ tasks[t].val = HandlerError

C15_Witness ==
  \E t \in TaskIds :
    /\ Handled(t, "before", "hThrows") # {}
    /\ Done(t) /\ tasks[t].val = HandlerError

\* C16: when the implementation resolves and the handler of the after event
\* throws, the wrapped call fails for its caller with the handler's failure
\* instead of resolving with the result.
C16_AfterHandlerThrows ==
  \A t \in TaskIds :
    Handled(t, "after", "hThrows") # {} =>
      /\ Positions(t, "implResolved") # {}
      /\ ~tasks[t].ok /\ tasks[t].val = HandlerError

C16_Witness ==
  \E t \in TaskIds :
    /\ Handled(t, "after", "hThrows") # {}
    /\ Positions(t, "implResolved") # {}
    /\ Done(t) /\ ~tasks[t].ok /\ tasks[t].val = HandlerError

\* C17: registering a value that is not callable fails with InvalidHandler
\* and leaves the handlers of the registry as they were: the registry always
\* holds, per name, the callable value registered last.
C17_InvalidHandler ==
  /\ \A k \in 1..Len(regLog) :
       regLog[k].h = NotCallable => regLog[k].result = InvalidHandler
  /\ \A i \in 1..Len(registry) : \A name \in RegisterNames :
       registry[i][name].id = LatestCallable(i, name)

C17_Witness ==
  /\ Len(regLog) = 2
  /\ regLog[1].inst = regLog[2].inst /\ regLog[1].name = regLog[2].name
  /\ regLog[1].h = "hReturns" /\ regLog[2].h = NotCallable
  /\ regLog[2].result = InvalidHandler
  /\ registry[regLog[1].inst][regLog[1].name].id = "hReturns"

\* C18: each instance has its own registry: every handler a call on
\* instance Y invokes was registered on Y, never on another instance.
C18_RegistryPerInstance ==
  \A t \in TaskIds : \A j \in Positions(t, "handler") :
    log[t][j].this = tasks[t].inst

C18_Witness ==
  /\ Len(regLog) = 2
  /\ regLog[1].inst = 1 /\ regLog[2].inst = 2
  /\ regLog[1].name = afterHookName(foo) /\ regLog[2].name = afterHookName(foo)
  /\ regLog[1].h = "hReturns" /\ regLog[2].h = "hAsync"
  /\ \E t \in TaskIds :
       /\ tasks[t].inst = 2 /\ Done(t)
       /\ Handled(t, "after", "hAsync") # {}
       /\ Handled(t, "after", "hReturns") = {}

\* C19: every request error and every response error of a request made
\* through the fetch of a client fires onError on the registry of that
\* client with the transport's error.
C19_TransportErrorFiresOnError ==
  \A t \in TaskIds : \A r \in Positions(t, "implRejected") :
    log[t][r].site \in TransportCauses =>
      \E i \in Fires(t, "error") :
        /\ i < r
        /\ log[t][i].name = onError
        /\ log[t][i].this = tasks[t].inst
        /\ log[t][i].payload = <<log[t][r].val>>

C19_Witness ==
  \E t \in TaskIds : \E r \in Positions(t, "implRejected") :
    /\ log[t][r].site = "response"
    /\ Fires(t, "error") # {}
    /\ \E j \in Positions(t, "handler") :
         /\ log[t][j].name = onError
         /\ log[t][j].payload = <<"e1">>
         /\ log[t][j].this = tasks[t].inst

\* C20: whenever a call of a client operation fails, at whatever step, the
\* onError hook is called for that failure.
C20_EveryFailureFiresOnError ==
  \A t \in TaskIds :
    (Done(t) /\ ~tasks[t].ok) =>
      \E i \in Fires(t, "error") : log[t][i].payload = <<tasks[t].val>>

(* -------------------------- transformation claims ---------------------- *)
\* C21: the hooks-not-initialized failure is raised at the call itself: the
\* call throws instead of returning a promise that is rejected later.
C21_MissingHooksThrowsAtCall ==
  \A t \in TaskIds :
    (IsWrapped(t) /\ ~insts[tasks[t].inst].hooks) =>
      /\ tasks[t].val = HooksNotInitialized
      /\ tasks[t].returned = "threw"

\* what a call of key on an instance of c was before any transformation
Original(c, key) == lookup(InitTable, c, key)

\* C22: GenHooks replaces only the asynchronous operations: a member that
\* was synchronous before the transformation (the constructor, the members
\* inherited from the root object prototype) is not wrapped, still returns
\* its value synchronously and still works without a hook registry, and
\* data attributes stay what they were.
C22_OnlyAsyncOperationsWrapped ==
  /\ \A c \in Classes : \A key \in Keys :
       (Original(c, key).kind # "fn" \/ ~IsAsync(Original(c, key)))
         => lookup(table, c, key) = Original(c, key)
  /\ \A t \in TaskIds :
       ~IsAsync(Original(ClassOf(t), tasks[t].key)) =>
         /\ tasks[t].returned = "value"
         /\ Positions(t, "fire") = {}
         /\ tasks[t].val # HooksNotInitialized

\* the position in trace of the k-th entry of the log of call t
GlobalPos(t, k) ==
  CHOOSE p \in 1..Len(trace) :
    /\ trace[p] = t
    /\ Cardinality({q \in 1..p : trace[q] = t}) = k

\* C23: with several wrapped calls in flight, for every call each begin
\* event precedes the start of its implementation with no step of another
\* call in between, each after event follows the resolution of that call's
\* own implementation, and the call has returned once its outermost wrapper
\* fired the after event.
C23_SequentialPerInvocation ==
  \A t \in {u \in TaskIds : IsWrapped(u) /\ tasks[u].val # HooksNotInitialized} :
    /\ \A b \in Fires(t, "before") :
         \E s \in Positions(t, "implStart") :
           /\ b < s
           /\ GlobalPos(t, s) - GlobalPos(t, b) = s - b
    /\ \A a \in Fires(t, "after") :
         \E r \in Positions(t, "implResolved") : r < a
    /\ Cardinality(Fires(t, "after")) = Len(tasks[t].fn.wraps) => Done(t)

C23_Witness ==
  \E t \in TaskIds, u \in TaskIds :
    /\ t # u /\ tasks[t].inst = tasks[u].inst
    /\ IsWrapped(t) /\ IsWrapped(u)
    /\ Resolved(t) /\ Resolved(u)
    /\ \E r \in Positions(t, "implResolved"), q \in Positions(u, "implResolved") :
         /\ GlobalPos(t, 1) < GlobalPos(u, 1)
         /\ GlobalPos(u, 1) < GlobalPos(t, r)
         /\ GlobalPos(u, q) < GlobalPos(t, r)

\* C24: the set of wrapped operations is fixed when GenHooks runs: after a
\* name is added to or removed from an exemption list, a call still reaches
\* what GenHooks installed, the operations wrapped then still fire their
\* events and the operations exempt then still fire none.
C24_ExemptionFrozen ==
  /\ table = FrozenTable(stage["B"].hooked)
  /\ \A t \in TaskIds :
       LET installed == lookup(FrozenTable(stage["B"].hooked), ClassOf(t),
                               tasks[t].key)
       IN  /\ tasks[t].fn = installed
           /\ (Resolved(t) /\ Len(installed.wraps) > 0)
                => (Fires(t, "before") # {} /\ Fires(t, "after") # {})
           /\ Len(installed.wraps) = 0
                => (Fires(t, "before") = {} /\ Fires(t, "after") = {}
                    /\ tasks[t].val # HooksNotInitialized)

C24_Witness ==
  \E t \in TaskIds :
    /\ ClassOf(t) = "A" /\ tasks[t].key = getDocumentData
    /\ ~skipped(skipLog, "A", getDocumentData)
    /\ Resolved(t) /\ Fires(t, "before") = {} /\ Fires(t, "after") = {}
    /\ \E p \in 1..Len(trace) : trace[p] = Mutation /\ p < GlobalPos(t, 1)

(* ---------------------------- Yousign claims --------------------------- *)
\* the event each registering method is documented to serve
DocumentedEvent(method) ==
  [onStarted |-> "started", onSuccess |-> "success", onError |-> "error",
   onPing |-> "ping", onDeclined |-> "declined"][method]

\* C25: each of onStarted, onSuccess, onError, onPing and onDeclined throws
\* InvalidCallbackFunction for a value that is not a function and leaves
\* the callbacks as they were; for a function it replaces the callback of
\* exactly its own event type and of no other.
C25_CallbackRegistration ==
  [][yousign'.calls # yousign.calls =>
       LET c == yousign'.lastCall
           e == DocumentedEvent(c.method)
       IN  IF c.callback \in Callbacks
           THEN /\ c.thrown = "none"
                /\ yousign'.eventCallbacks[e] = c.callback
                /\ \A o \in EventTypes \ {e} :
                     yousign'.eventCallbacks[o] = yousign.eventCallbacks[o]
           ELSE /\ c.thrown = InvalidCallbackFunction
                /\ yousign'.eventCallbacks = yousign.eventCallbacks]_vars

C25_Witness ==
  /\ yousign.calls = 2
  /\ yousign.lastCall.callback = NotAFunction
  /\ yousign.lastCall.thrown = InvalidCallbackFunction
  /\ yousign.eventCallbacks[DocumentedEvent(yousign.lastCall.method)] \in Callbacks

\* C29: a callback is invoked only for a message whose data is an object of
\* type "yousign", whose origin is exactly https://yousign.app and whose
\* event has a registered callback, and the iframe source changes only for
\* a message from that origin.
C29_OnlyYousignOrigin ==
  LET m == yousign.lastMessage
  IN  yousign.messages > 0 =>
        /\ m.invoked # "none" =>
             /\ m.data.isObject /\ m.data.type = "yousign"
             /\ m.origin = YousignOrigin
             /\ m.invoked = m.registered /\ m.registered \in Callbacks
        /\ m.srcAfter # m.srcBefore => m.origin = YousignOrigin

\* C30: after removeMessageListener no window message invokes a callback of
\* the instance or changes the iframe source, whatever is registered before
\* or after the removal.
C30_NoMessageAfterRemoval ==
  (yousign.messages > 0 /\ yousign.lastMessage.afterRemoval) =>
    /\ yousign.lastMessage.invoked = "none"
    /\ yousign.lastMessage.srcAfter = yousign.lastMessage.srcBefore
    /\ yousign.src = yousign.lastMessage.srcBefore

C30_Witness ==
  /\ yousign.messages > 0 /\ yousign.lastMessage.afterRemoval
  /\ yousign.lastMessage.origin = YousignOrigin
  /\ yousign.lastMessage.data.type = "yousign"
  /\ yousign.lastMessage.registered \in Callbacks
  /\ yousign.lastMessage.invoked = "none"

\* C26: getCertificate distinguishes the value of a boolean second
\* argument: for one signature request the call with true and the call with
\* false do not issue the same request; with a string it requests the audit
\* trail of that signer.
C26_MergeDocumentsDistinguished ==
  \A i \in 1..Len(requests), j \in 1..Len(requests) :
    /\ (/\ requests[i].signatureRequestId = requests[j].signatureRequestId
        /\ requests[i].signerId = [type |-> "boolean", value |-> "true"]
        /\ requests[j].signerId = [type |-> "boolean", value |-> "false"])
       => requests[i].result # requests[j].result
    /\ requests[i].signerId.type = "string"
       => requests[i].result.url =
            <<"/signature_requests/", requests[i].signatureRequestId,
              "/signers/", requests[i].signerId.value, "/audit_trails/download">>

\* no class on the chain of c was transformed with GenHooks
Undecorated(c) == \A d \in Chain(c) \cap Classes : ~stage[d].hooked

\* C27: GenHooks on a class leaves the own operation table of every other
\* prototype unchanged; a call on an instance of a class with no transformed
\* class on its chain runs the original implementation directly, fires no
\* begin or after event and does not need a hook registry.
C27_AncestorsUntouched ==
  /\ \A p \in Protos :
       (p \notin Classes \/ ~stage[p].hooked) => table[p] = InitTable[p]
  /\ \A t \in TaskIds :
       Undecorated(ClassOf(t)) =>
         /\ tasks[t].fn = Original(ClassOf(t), tasks[t].key)
         /\ Fires(t, "before") = {} /\ Fires(t, "after") = {}
         /\ tasks[t].val # HooksNotInitialized
         /\ Len(log[t]) > 0 /\ log[t][1].type = "implStart"

\* a subclass was transformed, its base class was not, and a call of an
\* operation on an instance of the base class without registry resolved
C27_Witness ==
  /\ stage["B"].hooked /\ stage["A"].done /\ ~stage["A"].hooked
  /\ \E t \in TaskIds :
       /\ ClassOf(t) = "A" /\ ~insts[tasks[t].inst].hooks
       /\ tasks[t].key = foo /\ Resolved(t)

\* C28: a step in which class c marks an operation with NoHook changes the
\* exemption list of no other class: the own list of every class other than
\* the one being defined stays what it was.
C28_NoHookChangesOwnListOnly ==
  [][\A c \in Classes :
       stage'[c].marked # stage[c].marked =>
         \A d \in Classes \ {c} : skipLog'[d] = skipLog[d]]_vars

====
